---------------------------- MODULE Spec2Model ----------------------------
(***************************************************************************)
(* Model of vnstock.explorer.vci.quote.Quote: the three public calls       *)
(* history, intraday and price_depth.  A call runs up to its send_request, *)
(* the transport answers, and the call runs to its return or its raise.    *)
(* Dates are <<year, month, day>>, datetimes are [date, sec] with sec the  *)
(* second of the day, an absent optional argument (None) is <<>> and a     *)
(* present one is <<value>>.                                               *)
(***************************************************************************)
EXTENDS Integers, Sequences, FiniteSets, TLC

VARIABLES pc, op, args, start_time, end_time, count_back, branch, payload,
          market_status, gateChecks, transportCalls, json_data,
          normalizerCalls, df, result, error, trace, utcoffset

vars == <<pc, op, args, start_time, end_time, count_back, branch, payload,
          market_status, gateChecks, transportCalls, json_data,
          normalizerCalls, df, result, error, trace, utcoffset>>

None == <<>>
Some(v) == <<v>>

-----------------------------------------------------------------------------
(* Bounds of the model *)

\* the first MaxDayOffset+1 days from BaseDate are start/end dates
MaxDayOffset == 4
\* a supplied count_back ranges over -1 .. MaxCountBack
MaxCountBack == 2
\* the provider answers with 0 .. MaxRows records
MaxRows == 3

-----------------------------------------------------------------------------
(* The proleptic Gregorian calendar of datetime *)

IsLeap(y) == (y % 4 = 0) /\ ((y % 100 # 0) \/ (y % 400 = 0))

DaysInMonth(y, m) ==
    IF m = 2 THEN (IF IsLeap(y) THEN 29 ELSE 28)
    ELSE IF m \in {4, 6, 9, 11} THEN 30 ELSE 31

RECURSIVE DaysBeforeMonth(_, _)
DaysBeforeMonth(y, m) ==
    IF m = 1 THEN 0 ELSE DaysBeforeMonth(y, m - 1) + DaysInMonth(y, m - 1)

DaysBeforeYear(y) ==
    (y - 1) * 365 + ((y - 1) \div 4) - ((y - 1) \div 100) + ((y - 1) \div 400)

\* date.toordinal(): 0001-01-01 is day 1
ToOrdinal(d) == DaysBeforeYear(d[1]) + DaysBeforeMonth(d[1], d[2]) + d[3]

\* the date one calendar day later
NextDay(d) ==
    IF d[3] < DaysInMonth(d[1], d[2]) THEN <<d[1], d[2], d[3] + 1>>
    ELSE IF d[2] < 12 THEN <<d[1], d[2] + 1, 1>>
    ELSE <<d[1] + 1, 1, 1>>

RECURSIVE AddDays(_, _)
AddDays(d, n) == IF n = 0 THEN d ELSE AddDays(NextDay(d), n - 1)

\* datetime.strptime(s, "%Y-%m-%d"): midnight of the day
strptime(d) == [date |-> d, sec |-> 0]

\* the end taken without its one-day pad
PlusOneDayNoPad(dt) == dt

\* dt + pd.Timedelta(days=1)
PlusOneDay(dt) == [date |-> NextDay(dt.date), sec |-> dt.sec]

\* a > b on datetimes
After(a, b) ==
    \/ ToOrdinal(a.date) > ToOrdinal(b.date)
    \/ ToOrdinal(a.date) = ToOrdinal(b.date) /\ a.sec > b.sec

\* the days counted with both ends included
DateDiffDaysInclusive(a, b) == ToOrdinal(a) - ToOrdinal(b) + 1

\* (a - b).days on dates
DateDiffDays(a, b) == ToOrdinal(a) - ToOrdinal(b)

\* (a - b).total_seconds() on datetimes
total_seconds(a, b) == (ToOrdinal(a.date) - ToOrdinal(b.date)) * 86400 + (a.sec - b.sec)

\* the UTC offsets, in seconds, of the time zones the process may run in: UTC,
\* Asia/Ho_Chi_Minh and America/New_York (standard time on every date used here)
UtcOffsets == {0, 25200, -18000}

\* int(dt.timestamp()): seconds since 1970-01-01 (ordinal 719163), the naive
\* time read as local time of the process, offset being the seconds the zone
\* is ahead of UTC on that date
timestamp(dt, offset) == (ToOrdinal(dt.date) - 719163) * 86400 + dt.sec - offset

-----------------------------------------------------------------------------
(* The inputs of the calls *)

BaseDate == <<2023, 12, 30>>

Dates == {AddDays(BaseDate, k) : k \in 0..MaxDayOffset}
           \cup {<<2024, 1, 10>>, <<2024, 2, 29>>, <<2024, 3, 1>>, <<2025, 1, 1>>}

\* what datetime.now() may answer
Nows == {[date |-> d, sec |-> s] : d \in {<<2024, 1, 2>>, <<2024, 12, 31>>},
                                   s \in {0, 3599, 86399}}

ValidIntervals == {"1m", "5m", "15m", "30m", "1H", "1D", "1W", "1M"}
Intervals == ValidIntervals \cup {"2D"}

CountBackArgs == {None} \cup {Some(n) : n \in (-1)..MaxCountBack}

symbol == "FPT"

\* _INTERVAL_MAP
interval_map ==
    [i \in ValidIntervals |->
        IF i \in {"1m", "5m", "15m", "30m"} THEN "ONE_MINUTE"
        ELSE IF i = "1H" THEN "ONE_HOUR" ELSE "ONE_DAY"]

\* the label used as it was given
lowerNot(s) == s

\* str.lower() on the interval labels
lower(s) ==
    CASE s = "1M" -> "1m"
      [] s = "1H" -> "1h"
      [] s = "1D" -> "1d"
      [] s = "1W" -> "1w"
      [] s = "2D" -> "2d"
      [] OTHER -> s


-----------------------------------------------------------------------------
(* Quote.history up to the request: validation, time window, count_back *)

\* ticker.interval not in self.interval_map raises
ValidInterval(interval) == interval \in DOMAIN interval_map

\* no range check at all
RangeErrorNever(st, et) == FALSE

\* the range check: start_time > end_time
RangeError(st, et) == After(st, et)

\* the end of the window: the end date or now, plus one day
EndTime(end, now) ==
    IF end # None THEN PlusOneDay(strptime(end[1])) ELSE PlusOneDay(now)

\* the month difference without the years
MonthDiffNoYear(st, et) == et.date[2] - st.date[2]

\* (end_time.year - start_time.year) * 12 + (end_time.month - start_time.month)
MonthDiff(st, et) == (et.date[1] - st.date[1]) * 12 + (et.date[2] - st.date[2])

FallbackCountBack == 30

\* the branch of the count_back derivation that the lowercased label takes
CountBackBranch(interval) ==
    IF interval \in {"1d", "1w", "1m"}
    THEN IF interval = "1w" THEN "week"
         ELSE IF interval = "1m" THEN "month"
         ELSE "day"
    ELSE IF interval \in {"1h"} THEN "hour"
    ELSE IF interval \in {"1m", "5m", "15m", "30m"} THEN "minute"
    ELSE "fallback"

\* the branches on the lowercased interval label
CountBackRaw(interval, st, et) ==
    IF interval \in {"1d", "1w", "1m"}
    THEN IF interval = "1w" THEN DateDiffDays(et.date, st.date) \div 7
         ELSE IF interval = "1m" THEN MonthDiff(st, et)
         ELSE DateDiffDays(et.date, st.date)
    ELSE IF interval \in {"1h"}
    THEN total_seconds(et, st) \div 3600
    ELSE IF interval \in {"1m", "5m", "15m", "30m"}
    THEN IF interval = "1m" THEN total_seconds(et, st) \div 60
         ELSE IF interval = "5m" THEN (total_seconds(et, st) \div 60) \div 5
         ELSE IF interval = "15m" THEN (total_seconds(et, st) \div 60) \div 15
         ELSE IF interval = "30m" THEN (total_seconds(et, st) \div 60) \div 30
         ELSE total_seconds(et, st) \div 60
    ELSE FallbackCountBack

\* no clamp
ClampNone(cb) == cb

\* if count_back <= 0: count_back = 1
Clamp(cb) == IF cb <= 0 THEN 1 ELSE cb

\* count_back when the caller did not supply it
ComputeCountBack(interval, st, et) == Clamp(CountBackRaw(lower(interval), st, et))

HistoryPayload(interval, et, cb) ==
    [timeFrame |-> interval_map[interval], symbols |-> <<symbol>>,
     to |-> timestamp(et, utcoffset), countBack |-> cb]

NoTime == [date |-> <<1, 1, 1>>, sec |-> 0]
NoStatus == [is_trading_hour |-> TRUE, data_status |-> "unread"]
NoResult == [kind |-> "none", rows |-> <<>>]

Init ==
    /\ pc = "Idle"
    /\ op = "none"
    /\ args = <<>>
    /\ start_time = NoTime
    /\ end_time = NoTime
    /\ count_back = None
    /\ payload = <<>>
    /\ market_status = NoStatus
    /\ gateChecks = 0
    /\ transportCalls = 0
    /\ json_data = <<>>
    /\ normalizerCalls = 0
    /\ df = <<>>
    /\ result = NoResult
    /\ error = ""
    /\ trace = <<>>
    /\ branch = "none"
    /\ utcoffset \in UtcOffsets

\* no call is in progress
Ready == pc = "Idle"

\* what every call starts from: nothing of the previous call is kept
Fresh ==
    /\ transportCalls' = 0
    /\ json_data' = <<>>
    /\ normalizerCalls' = 0
    /\ df' = <<>>
    /\ result' = NoResult

HistoryCall(start, end, interval, cb, to_df, now) ==
    /\ Ready
    /\ Fresh
    /\ UNCHANGED utcoffset
    /\ op' = "history"
    /\ args' = [start |-> start, end |-> end, interval |-> interval,
                count_back |-> cb, to_df |-> to_df]
    /\ market_status' = NoStatus
    /\ gateChecks' = 0
    /\ IF ~ValidInterval(interval)
       THEN /\ pc' = "Failed"
            /\ error' = "InvalidInterval"
            /\ trace' = <<"Validate">>
            /\ start_time' = NoTime
            /\ end_time' = NoTime
            /\ count_back' = cb
            /\ branch' = "none"
            /\ payload' = <<>>
       ELSE LET st == strptime(start)
                et == EndTime(end, now)
            IN /\ start_time' = st
               /\ end_time' = et
               /\ IF end # None /\ RangeError(st, et)
                  THEN /\ pc' = "Failed"
                       /\ error' = "InvalidRange"
                       /\ trace' = <<"Validate">>
                       /\ count_back' = cb
                       /\ branch' = "none"
                       /\ payload' = <<>>
                  ELSE LET n == IF cb = None
                                THEN ComputeCountBack(interval, st, et)
                                ELSE cb[1]
                       IN /\ pc' = "Transport"
                          /\ error' = ""
                          /\ trace' = <<"Validate", "Build">>
                          /\ count_back' = Some(n)
                          /\ branch' = IF cb = None THEN CountBackBranch(lower(interval))
                                       ELSE "none"
                          /\ payload' = HistoryPayload(interval, et, n)

-----------------------------------------------------------------------------
(* Quote.intraday and Quote.price_depth up to the request: the session gate *)

\* what trading_hours(None) may answer
Statuses == [is_trading_hour : BOOLEAN, data_status : {"preparing", "open", "closed"}]

\* blocked outside trading hours or while preparing
SessionBlockedEither(status) ==
    status.is_trading_hour = FALSE \/ status.data_status = "preparing"

\* is_trading_hour is False and data_status == 'preparing'
SessionBlocked(status) ==
    status.is_trading_hour = FALSE /\ status.data_status = "preparing"

PageSizes == {100, 30001}

IntradayPayload(page_size, last_time) ==
    [symbol |-> symbol, limit |-> page_size, truncTime |-> last_time]

DepthPayload == [symbol |-> symbol]

\* the part the two gated calls share; p is the payload of the call.
\* self.symbol is set by the constructor and is never None here, and a
\* page_size above 30000 only logs a warning.
GatedCall(name, a, status, p) ==
    /\ Ready
    /\ Fresh
    /\ UNCHANGED utcoffset
    /\ op' = name
    /\ args' = a
    /\ start_time' = NoTime
    /\ end_time' = NoTime
    /\ count_back' = None
    /\ branch' = "none"
    /\ market_status' = status
    /\ gateChecks' = 1
    /\ IF SessionBlocked(status)
       THEN /\ pc' = "Failed"
            /\ error' = "SessionNotReady"
            /\ trace' = <<"Gate">>
            /\ payload' = <<>>
       ELSE /\ pc' = "Transport"
            /\ error' = ""
            /\ trace' = <<"Gate", "Build">>
            /\ payload' = p

IntradayCall(page_size, last_time, to_df, status) ==
    GatedCall("intraday",
              [page_size |-> page_size, last_time |-> last_time, to_df |-> to_df],
              status, IntradayPayload(page_size, last_time))

PriceDepthCall(to_df, status) ==
    GatedCall("price_depth", [to_df |-> to_df], status, DepthPayload)

-----------------------------------------------------------------------------
(* The transport: send_request answers with parsed JSON or raises *)

\* k bars of the provider's bucket, oldest first, the first at BaseDate + 1
RawBars(k) == [i \in 1..k |-> [time |-> ToOrdinal(BaseDate) + i, volume |-> 1]]

RawTicks(k) == [i \in 1..k |-> [truncTime |-> i, matchVol |-> 1]]

\* depth records, with or without the accumulatedVolume field
RawDepth(k, complete) ==
    [i \in 1..k |-> IF complete THEN [priceStep |-> i, accumulatedVolume |-> 1]
                    ELSE [priceStep |-> i]]

Replies(name) ==
    IF name = "history"
    THEN {<<>>} \cup {<<RawBars(k)>> : k \in 0..MaxRows}
    ELSE IF name = "intraday"
    THEN {RawTicks(k) : k \in 0..MaxRows}
    ELSE {RawDepth(k, c) : k \in 0..MaxRows, c \in BOOLEAN}

SendRequest ==
    /\ pc = "Transport"
    /\ transportCalls' = transportCalls + 1
    /\ trace' = Append(trace, "Transport")
    /\ \/ /\ \E reply \in Replies(op) : json_data' = reply
          /\ pc' = "Normalize"
          /\ error' = ""
       \/ /\ json_data' = <<>>
          /\ pc' = "Failed"
          /\ error' = "TransportError"
    /\ UNCHANGED <<utcoffset, op, args, start_time, end_time, count_back, branch, payload,
                   market_status, gateChecks, normalizerCalls, df, result>>

-----------------------------------------------------------------------------
(* The calls after the answer: normalisation, truncation, return *)

\* no check of the answer
EmptyPayloadNever(j) == FALSE

\* not json_data
EmptyPayload(j) == Len(j) = 0

\* the calendar bucket a bar of time t falls in, by the interval's resample rule
BucketOf(interval, t) ==
    IF interval = "1W" THEN (t - 1) \div 7
    ELSE IF interval = "1M"
    THEN LET d == AddDays(BaseDate, t - ToOrdinal(BaseDate)) IN d[1] * 12 + d[2]
    ELSE IF interval = "5m" THEN t \div 5
    ELSE IF interval = "15m" THEN t \div 15
    ELSE IF interval = "30m" THEN t \div 30
    ELSE t

\* the bars of one bucket become one bar: the first time, the summed volume
RECURSIVE Resample(_, _)
Resample(data, interval) ==
    IF Len(data) <= 1 THEN data
    ELSE LET rest == Resample(Tail(data), interval)
             a == Head(data)
             b == Head(rest)
         IN IF BucketOf(interval, a.time) = BucketOf(interval, b.time)
            THEN <<[time |-> a.time, volume |-> a.volume + b.volume]>> \o Tail(rest)
            ELSE <<a>> \o rest

\* ohlc_to_df raises when it is given no records
ohlc_to_df_raises(data) == Len(data) = 0

ohlc_to_df(data, interval) == Resample(data, interval)

\* the first n rows instead of the last
head(rows, n) ==
    IF n <= 0 THEN <<>>
    ELSE IF n >= Len(rows) THEN rows ELSE SubSeq(rows, 1, n)

\* DataFrame.tail(n): the last n rows; for n < 0 all rows but the first -n
tail(rows, n) ==
    IF n = 0 THEN <<>>
    ELSE IF n > 0
    THEN (IF n >= Len(rows) THEN rows ELSE SubSeq(rows, Len(rows) - n + 1, Len(rows)))
    ELSE (IF -n >= Len(rows) THEN <<>> ELSE SubSeq(rows, 1 - n, Len(rows)))

\* return df, or df.to_json(orient='records')
Returned(rows, to_df) == [kind |-> IF to_df THEN "table" ELSE "json", rows |-> rows]

Raise(err) ==
    /\ pc' = "Failed"
    /\ error' = err
    /\ result' = NoResult

HistoryReturn ==
    /\ pc = "Normalize"
    /\ op = "history"
    /\ IF EmptyPayload(json_data)
       THEN /\ Raise("EmptyResult")
            /\ UNCHANGED <<normalizerCalls, df, trace>>
       ELSE IF Len(json_data) = 0
       THEN \* json_data[0] of an empty list
            /\ Raise("IndexError")
            /\ UNCHANGED <<normalizerCalls, df, trace>>
       ELSE IF ohlc_to_df_raises(json_data[1])
       THEN /\ Raise("EmptyResult")
            /\ normalizerCalls' = normalizerCalls + 1
            /\ trace' = Append(trace, "Normalize")
            /\ UNCHANGED df
       ELSE LET rows == tail(ohlc_to_df(json_data[1], args.interval), count_back[1])
            IN /\ normalizerCalls' = normalizerCalls + 1
               /\ df' = rows
               /\ result' = Returned(rows, args.to_df)
               /\ trace' = trace \o <<"Normalize", "Return">>
               /\ pc' = "Done"
               /\ error' = ""
    /\ UNCHANGED <<utcoffset, op, args, start_time, end_time, count_back, branch, payload,
                   market_status, gateChecks, transportCalls, json_data>>

\* intraday_to_df: the tick columns renamed
intraday_to_df(data) ==
    [i \in 1..Len(data) |-> [time |-> data[i].truncTime, volume |-> data[i].matchVol]]

IntradayReturn ==
    /\ pc = "Normalize"
    /\ op = "intraday"
    /\ normalizerCalls' = normalizerCalls + 1
    /\ df' = intraday_to_df(json_data)
    /\ result' = Returned(df', args.to_df)
    /\ trace' = trace \o <<"Normalize", "Return">>
    /\ pc' = "Done"
    /\ error' = ""
    /\ UNCHANGED <<utcoffset, op, args, start_time, end_time, count_back, branch, payload,
                   market_status, gateChecks, transportCalls, json_data>>

\* _PRICE_DEPTH_MAP.keys()
PriceDepthKeys == {"priceStep", "accumulatedVolume"}

\* pd.DataFrame(data).columns
Columns(data) == IF Len(data) = 0 THEN {} ELSE DOMAIN data[1]

\* df[keys] renamed by _PRICE_DEPTH_MAP
RenameDepth(data) ==
    [i \in 1..Len(data) |->
        [price |-> data[i].priceStep, acc_volume |-> data[i].accumulatedVolume]]

PriceDepthReturn ==
    /\ pc = "Normalize"
    /\ op = "price_depth"
    /\ normalizerCalls' = normalizerCalls + 1
    /\ IF ~(PriceDepthKeys \subseteq Columns(json_data))
       THEN /\ Raise("MissingColumns")
            /\ trace' = Append(trace, "Normalize")
            /\ UNCHANGED df
       ELSE /\ df' = RenameDepth(json_data)
            /\ result' = Returned(df', args.to_df)
            /\ trace' = trace \o <<"Normalize", "Return">>
            /\ pc' = "Done"
            /\ error' = ""
    /\ UNCHANGED <<utcoffset, op, args, start_time, end_time, count_back, branch, payload,
                   market_status, gateChecks, transportCalls, json_data>>

\* the caller has the table or the exception; the instance keeps nothing of the call
Finish ==
    /\ pc \in {"Done", "Failed"}
    /\ pc' = "Idle"
    /\ op' = "none"
    /\ args' = <<>>
    /\ start_time' = NoTime
    /\ end_time' = NoTime
    /\ count_back' = None
    /\ branch' = "none"
    /\ payload' = <<>>
    /\ market_status' = NoStatus
    /\ gateChecks' = 0
    /\ error' = ""
    /\ trace' = <<>>
    /\ Fresh
    /\ UNCHANGED utcoffset

-----------------------------------------------------------------------------

\* a caller's history(start, end, interval, count_back=cb, to_df=to_df)
History ==
    /\ Ready
    /\ \E start \in Dates, end \in {None} \cup {Some(d) : d \in Dates},
          interval \in Intervals, cb \in CountBackArgs, to_df \in BOOLEAN :
          \E now \in (IF end = None THEN Nows ELSE {NoTime}) :
             HistoryCall(start, end, interval, cb, to_df, now)

\* a caller's intraday(page_size, to_df=to_df)
Intraday ==
    /\ Ready
    /\ \E page_size \in PageSizes, to_df \in BOOLEAN, status \in Statuses :
          IntradayCall(page_size, None, to_df, status)

\* a caller's price_depth(to_df=to_df)
PriceDepth ==
    /\ Ready
    /\ \E to_df \in BOOLEAN, status \in Statuses : PriceDepthCall(to_df, status)

Next ==
    \/ History
    \/ Intraday
    \/ PriceDepth
    \/ SendRequest
    \/ HistoryReturn
    \/ IntradayReturn
    \/ PriceDepthReturn
    \/ Finish

Spec == Init /\ [][Next]_vars

-----------------------------------------------------------------------------
(* The claims *)

\* history has built its request: the payload is set
HistoryBuilt == op = "history" /\ Len(trace) >= 2

\* history has built its request and computed count_back itself
HistoryComputed == HistoryBuilt /\ args.count_back = None

\* the same, with an end date given
HistoryRanged == HistoryComputed /\ args.end # None

AtLeastOne(n) == IF n < 1 THEN 1 ELSE n

\* the days from the start date to the end date
SpanDays == ToOrdinal(args.end[1]) - ToOrdinal(args.start)

\* C1: with interval 1m (one minute) and count_back not supplied, countBack is
\* the number of whole minutes between the resolved end timestamp and the start
\* timestamp, clamped to 1.  The code takes the month branch for "1m".
C1_MinuteCountBack ==
    (HistoryRanged /\ args.interval = "1m")
        => payload.countBack = AtLeastOne((timestamp(end_time, utcoffset) - timestamp(start_time, utcoffset)) \div 60)

\* C2 as stated: with interval 1D and count_back not supplied, countBack is the
\* whole-day difference between the end date and the start date (clamped to 1),
\* 9 for 2024-01-01 .. 2024-01-10.
C2_Original ==
    (HistoryRanged /\ args.interval = "1D")
        => payload.countBack = AtLeastOne(SpanDays)

\* C2 amended: with interval 1D and count_back not supplied, countBack is the
\* whole-day difference between the day after the end date and the start date
\* (clamped to 1); 2024-01-01 .. 2024-01-10 yields 10.
C2_DayCountBack ==
    (HistoryRanged /\ args.interval = "1D")
        => /\ payload.countBack = AtLeastOne(SpanDays + 1)
           /\ (args.start = <<2024, 1, 1>> /\ args.end = Some(<<2024, 1, 10>>))
                 => payload.countBack = 10

C2_Witness ==
    /\ HistoryRanged
    /\ pc = "Transport"
    /\ args.interval = "1D"
    /\ args.start = <<2024, 1, 1>>
    /\ args.end = Some(<<2024, 1, 10>>)
    /\ payload.countBack = 10

\* C3: a history call whose start date is later than its end date fails with
\* the range error before the payload is built and never reaches the transport,
\* also when start is exactly one day after end.
C3_StartAfterEndRejected ==
    (/\ op = "history"
     /\ args.interval \in ValidIntervals
     /\ args.end # None
     /\ SpanDays < 0)
        => /\ pc = "Failed"
           /\ error = "InvalidRange"
           /\ transportCalls = 0
           /\ trace = <<"Validate">>

\* C4: whenever history computes count_back itself, the countBack of the
\* payload it sends is at least 1, for every valid interval and every start and
\* end, the end given or not.
C4_CountBackAtLeastOne ==
    HistoryComputed => payload.countBack >= 1 /\ count_back = Some(payload.countBack)

C4_Witness ==
    /\ HistoryComputed
    /\ args.end = None
    /\ After(start_time, end_time)
    /\ transportCalls = 1
    /\ payload.countBack = 1

\* C5: with the start date equal to the end date and count_back not supplied,
\* the computed count_back is exactly 1 for interval 1D and for interval 1W.
C5_SameDayIsOne ==
    (HistoryRanged /\ args.end = Some(args.start) /\ args.interval \in {"1D", "1W"})
        => payload.countBack = 1

C5_Witness ==
    /\ HistoryRanged
    /\ pc = "Transport"
    /\ args.end = Some(args.start)
    /\ args.interval = "1W"
    /\ payload.countBack = 1

\* the accepted ranges that contain the range of the call in progress
Containing ==
    {r \in Dates \X Dates :
        /\ ToOrdinal(r[1]) <= ToOrdinal(args.start)
        /\ ToOrdinal(args.end[1]) <= ToOrdinal(r[2])
        /\ ~RangeError(strptime(r[1]), EndTime(Some(r[2]), NoTime))}

CountBackOf(r) == ComputeCountBack(args.interval, strptime(r[1]), EndTime(Some(r[2]), NoTime))

\* C6: the computed count_back is monotonic in the span: for a fixed interval,
\* an accepted range that contains the range of the call yields a count_back
\* that is not smaller.
C6_Monotonic ==
    (HistoryRanged /\ pc = "Transport")
        => \A r \in Containing : CountBackOf(r) >= payload.countBack

C6_Witness ==
    /\ HistoryRanged
    /\ pc = "Transport"
    /\ args.interval = "1W"
    /\ args.start = <<2024, 1, 1>>
    /\ args.end = Some(<<2024, 1, 10>>)
    /\ payload.countBack = 1
    /\ \E r \in Containing : CountBackOf(r) > 1

\* history has returned: the normalized bar table before truncation
Normalized == ohlc_to_df(json_data[1], args.interval)

HistoryDone == op = "history" /\ pc = "Done"

\* rows are the last n of table, in their order
LastRows(rows, table, n) ==
    /\ Len(rows) = n
    /\ \A i \in 1..n : rows[i] = table[Len(table) - n + i]

\* C7 as stated: when the normalized bar table has more rows than count_back
\* (supplied or computed), the returned table is its last count_back rows in
\* their order; in every case it has at most count_back rows.
C7_Original ==
    HistoryDone
        => /\ Len(Normalized) > count_back[1]
                 => LastRows(result.rows, Normalized, count_back[1])
           /\ Len(result.rows) <= count_back[1]

\* C7 amended: for count_back >= 0 (supplied or computed), when the normalized
\* bar table has more rows than count_back the returned table is its last
\* count_back rows in their order, and in every case it has at most count_back
\* rows; for a supplied count_back < 0 the returned table is the normalized
\* table without its first -count_back rows.
C7_Truncation ==
    HistoryDone
        => LET n == count_back[1]
           IN /\ n >= 0 =>
                   /\ Len(Normalized) > n => LastRows(result.rows, Normalized, n)
                   /\ Len(Normalized) <= n => result.rows = Normalized
                   /\ Len(result.rows) <= n
              /\ n < 0 =>
                   LET kept == IF Len(Normalized) + n > 0 THEN Len(Normalized) + n ELSE 0
                   IN LastRows(result.rows, Normalized, kept)

C7_Witness ==
    /\ HistoryDone
    /\ count_back[1] = 2
    /\ Len(Normalized) = 3
    /\ result.rows = <<Normalized[2], Normalized[3]>>

\* C8: intraday and price_depth fail with SessionNotReady, without calling the
\* transport, exactly when the session status has is_trading_hour = false and
\* data_status = "preparing"; with every other status the request is built;
\* history never consults the session status and is never blocked by it.
C8_SessionGate ==
    /\ op \in {"intraday", "price_depth"}
          => /\ gateChecks = 1
             /\ (market_status.is_trading_hour = FALSE /\ market_status.data_status = "preparing")
                   => (pc = "Failed" /\ error = "SessionNotReady" /\ transportCalls = 0)
             /\ ~(market_status.is_trading_hour = FALSE /\ market_status.data_status = "preparing")
                   => (error # "SessionNotReady" /\ Len(trace) >= 2 /\ trace[2] = "Build")
    /\ op = "history" => (gateChecks = 0 /\ error # "SessionNotReady")

C8_Witness ==
    /\ op = "price_depth"
    /\ market_status = [is_trading_hour |-> FALSE, data_status |-> "preparing"]
    /\ pc = "Failed"
    /\ error = "SessionNotReady"
    /\ transportCalls = 0

\* the stages of a call, in their order
Pipeline(name) ==
    IF name = "history" THEN <<"Validate", "Build", "Transport", "Normalize", "Return">>
    ELSE <<"Gate", "Build", "Transport", "Normalize", "Return">>

IsPrefix(s, t) == Len(s) <= Len(t) /\ \A i \in 1..Len(s) : s[i] = t[i]

\* the call in progress is one that validation or the session gate refuses
Refused ==
    \/ /\ op = "history"
       /\ \/ args.interval \notin ValidIntervals
          \/ args.end # None /\ SpanDays < -1
    \/ /\ op \in {"intraday", "price_depth"}
       /\ market_status.is_trading_hour = FALSE
       /\ market_status.data_status = "preparing"

\* C9: a call runs its stages in the order Validate -> (Gate) -> Build ->
\* Transport -> Normalize -> Return with at most one transport call; when
\* validation or the session gate fails the transport is never called, and a
\* call that failed at any stage returns no table and no serialized records.
C9_LinearPipeline ==
    op # "none"
        => /\ IsPrefix(trace, Pipeline(op))
           /\ transportCalls <= 1
           /\ transportCalls = 1 <=> Len(trace) >= 3
           /\ Refused => (pc = "Failed" /\ transportCalls = 0)
           /\ error \in {"InvalidInterval", "InvalidRange", "SessionNotReady"}
                 => transportCalls = 0
           /\ pc = "Failed" <=> error # ""
           /\ pc # "Done" => result = NoResult
           /\ pc = "Done" => (trace = Pipeline(op) /\ result.kind \in {"table", "json"})

C9_Witness ==
    /\ op = "price_depth"
    /\ pc = "Failed"
    /\ error = "MissingColumns"
    /\ trace = <<"Gate", "Build", "Transport", "Normalize">>
    /\ transportCalls = 1
    /\ result = NoResult

\* history has its answer from the transport and has finished with it
HistoryAnswered ==
    /\ op = "history"
    /\ pc \in {"Done", "Failed"}
    /\ transportCalls = 1
    /\ error # "TransportError"

\* C10: when the provider's answer to a bar request is empty (an empty list),
\* history fails with EmptyResult, without invoking the bar normalizer and
\* without returning a table; an answer with records, fewer than count_back, is
\* not an error.
C10_EmptyResult ==
    HistoryAnswered
        => /\ Len(json_data) = 0
                 => /\ pc = "Failed"
                    /\ error = "EmptyResult"
                    /\ normalizerCalls = 0
                    /\ result = NoResult
           /\ (/\ Len(json_data) > 0
               /\ Len(json_data[1]) > 0
               /\ Len(json_data[1]) < count_back[1])
                 => /\ pc = "Done"
                    /\ error = ""
                    /\ result.rows = Normalized

C10_Witness ==
    /\ HistoryAnswered
    /\ json_data = <<>>
    /\ pc = "Failed"
    /\ error = "EmptyResult"
    /\ normalizerCalls = 0
    /\ result = NoResult

\* what each branch of the derivation computes from the time window
BranchValue(b) ==
    CASE b = "day" -> ToOrdinal(end_time.date) - ToOrdinal(start_time.date)
      [] b = "week" -> (ToOrdinal(end_time.date) - ToOrdinal(start_time.date)) \div 7
      [] b = "month" -> (end_time.date[1] * 12 + end_time.date[2])
                           - (start_time.date[1] * 12 + start_time.date[2])
      [] b = "hour" -> (timestamp(end_time, utcoffset) - timestamp(start_time, utcoffset)) \div 3600
      [] b = "minute" ->
            ((timestamp(end_time, utcoffset) - timestamp(start_time, utcoffset)) \div 60)
               \div (IF args.interval = "5m" THEN 5
                     ELSE IF args.interval = "15m" THEN 15
                     ELSE IF args.interval = "30m" THEN 30 ELSE 1)
      [] OTHER -> FallbackCountBack

\* C11: the fallback constant 30 is unreachable: for every interval that
\* passes interval validation and any start and end, the computed count_back
\* comes from the day, week, month, hour or minute branch, never from the
\* fallback branch; an interval that would take the fallback is rejected by
\* interval validation before the derivation.
C11_FallbackUnreachable ==
    /\ branch # "fallback"
    /\ HistoryComputed
          => /\ args.interval \in ValidIntervals
             /\ branch \in {"day", "week", "month", "hour", "minute"}
             /\ payload.countBack = AtLeastOne(BranchValue(branch))
    /\ (op = "history" /\ args.interval \notin ValidIntervals)
          => (pc = "Failed" /\ error = "InvalidInterval" /\ branch = "none")

C11_Witness ==
    /\ HistoryRanged
    /\ pc = "Transport"
    /\ args.interval = "1H"
    /\ branch = "hour"
    /\ payload.countBack = 24 * (SpanDays + 1)
    /\ payload.countBack > FallbackCountBack

=============================================================================
